---- MODULE Spec2Model ----
(***************************************************************************)
(* A model of lens-vm/jsonmerge (patch.go): JSON Patch decoding, encoding  *)
(* and application over a fastjson value tree.                             *)
(*                                                                         *)
(* Strings are sequences of one-character strings, so that splitting a     *)
(* pointer on "/" and unescaping a token are computed character by         *)
(* character.  fastjson values are mutable and shared by pointer, so the   *)
(* value tree is a heap: a function from node ids to nodes, in which an    *)
(* object holds its members in insertion order and an array holds the ids  *)
(* of its items.                                                           *)
(***************************************************************************)
EXTENDS Integers, Sequences, FiniteSets, TLC

\* ------------------------------------------------------------------ bounds
\* longest pointer token decoded on its own
MaxLen == 4
\* longest patch applied
MaxOps == 2
\* longest patch buffer decoded, in tokens
MaxBuf == 5
\* how deep a value is unfolded when two values are compared structurally
MaxDepth == 5

\* ----------------------------------------------------------------- strings
Nil == 0

RECURSIVE SeqsUpTo(_, _)
\* every sequence over S of length at most n
SeqsUpTo(S, n) ==
    IF n = 0 THEN {<<>>}
    ELSE LET shorter == SeqsUpTo(S, n - 1)
         IN  shorter \cup {Append(s, c) : s \in {t \in shorter : Len(t) = n - 1}, c \in S}

DropFirst(s, n) == SubSeq(s, n + 1, Len(s))

HasPrefix(s, p) == Len(s) >= Len(p) /\ SubSeq(s, 1, Len(p)) = p

Contains(s, c) == \E j \in 1..Len(s) : s[j] = c

RECURSIVE decodeTwoPassTilde(_)
\* a replace-all of "~0" by "~"
decodeTwoPassTilde(k) ==
    IF k = <<>> THEN <<>>
    ELSE IF HasPrefix(k, <<"~", "0">>) THEN <<"~">> \o decodeTwoPassTilde(DropFirst(k, 2))
    ELSE <<k[1]>> \o decodeTwoPassTilde(DropFirst(k, 1))

RECURSIVE decodeTwoPassSlash(_)
\* a replace-all of "~1" by "/"
decodeTwoPassSlash(k) ==
    IF k = <<>> THEN <<>>
    ELSE IF HasPrefix(k, <<"~", "1">>) THEN <<"/">> \o decodeTwoPassSlash(DropFirst(k, 2))
    ELSE <<k[1]>> \o decodeTwoPassSlash(DropFirst(k, 1))

\* the decoding as two successive replace-alls, "~0" first: text produced by
\* the first pass is decoded again by the second
decodeTwoPass(k) == decodeTwoPassSlash(decodeTwoPassTilde(k))

RECURSIVE decodePatchKey(_)
\* rfc6901Decoder.Replace(k), strings.NewReplacer("~1", "/", "~0", "~"): one
\* scan from the left; at each position the first pair that matches is
\* replaced and the scan resumes after the matched text, otherwise the
\* character is copied.
decodePatchKey(k) ==
    IF k = <<>> THEN <<>>
    ELSE IF HasPrefix(k, <<"~", "1">>) THEN <<"/">> \o decodePatchKey(DropFirst(k, 2))
    ELSE IF HasPrefix(k, <<"~", "0">>) THEN <<"~">> \o decodePatchKey(DropFirst(k, 2))
    ELSE <<k[1]>> \o decodePatchKey(DropFirst(k, 1))

RECURSIVE Split(_)
\* strings.Split(path, "/"): the text between the separators, one more
\* element than there are separators (the empty string splits into [""])
Split(path) ==
    IF ~ Contains(path, "/") THEN <<path>>
    ELSE LET j == CHOOSE x \in 1..Len(path) :
                      path[x] = "/" /\ \A y \in 1..(x - 1) : path[y] # "/"
         IN  <<SubSeq(path, 1, j - 1)>> \o Split(DropFirst(path, j))

Digits == <<"0", "1", "2", "3", "4", "5", "6", "7", "8", "9">>

IsDigit(c) == \E d \in 1..Len(Digits) : Digits[d] = c

DigitVal(c) == (CHOOSE d \in 1..Len(Digits) : Digits[d] = c) - 1

RECURSIVE DecVal(_)
DecVal(ds) ==
    IF ds = <<>> THEN 0
    ELSE 10 * DecVal(SubSeq(ds, 1, Len(ds) - 1)) + DigitVal(ds[Len(ds)])

\* strconv.Atoi(key): an optional sign, then one or more decimal digits
Atoi(key) ==
    LET signed == key # <<>> /\ key[1] \in {"+", "-"}
        ds     == IF signed THEN Tail(key) ELSE key
    IN  IF ds = <<>> \/ \E j \in 1..Len(ds) : ~ IsDigit(ds[j])
        THEN [ok |-> FALSE, n |-> 0]
        ELSE [ok |-> TRUE,
              n  |-> IF signed /\ key[1] = "-" THEN 0 - DecVal(ds) ELSE DecVal(ds)]

\* -------------------------------------------------------- the value heap
\* a fastjson.Value: its type, the members of an object in insertion order
\* (kvs), the items of an array (a), the text of a scalar (s)
ObjNode(kvs) == [t |-> "object", kvs |-> kvs, a |-> <<>>, s |-> <<>>]

ArrNode(a) == [t |-> "array", kvs |-> <<>>, a |-> a, s |-> <<>>]

StrNode(s) == [t |-> "string", kvs |-> <<>>, a |-> <<>>, s |-> s]

NullNode == [t |-> "null", kvs |-> <<>>, a |-> <<>>, s |-> <<>>]

KV(k, v) == [k |-> k, v |-> v]

RemoveAt(s, j) == SubSeq(s, 1, j - 1) \o SubSeq(s, j + 1, Len(s))

InsertAt(s, j, x) == SubSeq(s, 1, j - 1) \o <<x>> \o SubSeq(s, j, Len(s))

\* the position of the first member of kvs named key, 0 when there is none
FirstIndex(kvs, key) ==
    IF \E j \in 1..Len(kvs) : kvs[j].k = key
    THEN CHOOSE j \in 1..Len(kvs) :
             kvs[j].k = key /\ \A y \in 1..(j - 1) : kvs[y].k # key
    ELSE 0

\* fastjson Object.Get(key): the first member named key, or nil
ObjectGet(h, id, key) ==
    LET j == FirstIndex(h[id].kvs, key)
    IN  IF j = 0 THEN Nil ELSE h[id].kvs[j].v

\* the document values the parser built: an object document
\*   {"a": {"b": "x"}, "c": ["p", "q"], "~/": {"d": "y"}}        (node 1)
\* an array document ["r"] (node 9) and a scalar document "s" (node 11)
DocNodes ==
    << ObjNode(<< KV(<<"a">>, 2), KV(<<"c">>, 4), KV(<<"~", "/">>, 7) >>),
       ObjNode(<< KV(<<"b">>, 3) >>),
       StrNode(<<"x">>),
       ArrNode(<<5, 6>>),
       StrNode(<<"p">>),
       StrNode(<<"q">>),
       ObjNode(<< KV(<<"d">>, 8) >>),
       StrNode(<<"y">>),
       ArrNode(<<10>>),
       StrNode(<<"r">>),
       StrNode(<<"s">>) >>

DocRoots == {1, 9, 11}

\* fastjson's shared null value, stored where a nil value is set in an object
NullId == Len(DocNodes) + 1

\* fastjson Object.Set(key, value): overwrite the first member named key in
\* place, otherwise append a new member; a nil value is stored as null
ObjectSet(h, id, key, val) ==
    LET v == IF val = Nil THEN NullId ELSE val
        j == FirstIndex(h[id].kvs, key)
    IN  IF j = 0
        THEN [h EXCEPT ![id].kvs = Append(@, KV(key, v))]
        ELSE [h EXCEPT ![id].kvs[j].v = v]

\* fastjson Object.Del(key): delete the first member named key, if any
ObjectDel(h, id, key) ==
    LET j == FirstIndex(h[id].kvs, key)
    IN  IF j = 0 THEN h ELSE [h EXCEPT ![id].kvs = RemoveAt(@, j)]

\* fastjson Value.Get(key) on an array: the item at the decimal index key,
\* nil when key is no index of the array
ValueGet(h, id, key) ==
    LET n == Atoi(key)
    IN  IF ~ n.ok \/ n.n < 0 \/ n.n >= Len(h[id].a) THEN Nil ELSE h[id].a[n.n + 1]

\* fastjson Value.Del(key) on an array: delete the item at the decimal index
\* key and shift the later items left; nothing when key is no index
ValueDel(h, id, key) ==
    LET n == Atoi(key)
    IN  IF ~ n.ok \/ n.n < 0 \/ n.n >= Len(h[id].a) THEN h
        ELSE [h EXCEPT ![id].a = RemoveAt(@, n.n + 1)]

\* math.MaxInt (of a 32-bit build): an index past the end of every array
MaxInt == 2147483647

\* Value.SetArrayItem(idx, val) of the fastjson fork go.mod pins, as patch.go
\* describes it: an index at or past the current length appends, any other
\* index overwrites the item there
SetArrayItem(h, id, idx, val) ==
    IF idx >= Len(h[id].a)
    THEN [h EXCEPT ![id].a = Append(@, val)]
    ELSE [h EXCEPT ![id].a[idx + 1] = val]

\* Value.InsertArrayItem(idx, val) of the fastjson fork: insert val before
\* the item at idx, shifting the later items right; idx = length appends.
\* (An index past the length is taken as an append, as SetArrayItem takes
\* it; no claim below is settled on that case.)
InsertArrayItem(h, id, idx, val) ==
    IF idx >= Len(h[id].a)
    THEN [h EXCEPT ![id].a = Append(@, val)]
    ELSE [h EXCEPT ![id].a = InsertAt(@, idx + 1, val)]

\* -------------------------------------------------------------- containers
\* a container value: a fastdoc or a fastarray on a heap node, the nil
\* interface, or (as the result of a resolution) a nil dereference
DocCon(id) == [kind |-> "doc", v |-> id]

ArrCon(id) == [kind |-> "arr", v |-> id]

NilCon == [kind |-> "nil", v |-> Nil]

PanicCon == [kind |-> "panic", v |-> Nil]

fastdoc_get(h, id, key) ==
    LET val == ObjectGet(h, id, key)
    IN  [v |-> val, err |-> val = Nil]

\* a set that drops the members it does not write
fastdoc_set_alone(h, id, key, val) ==
    [h |-> [h EXCEPT ![id].kvs = <<KV(key, IF val = Nil THEN NullId ELSE val)>>],
     err |-> FALSE]

fastdoc_set(h, id, key, val) == [h |-> ObjectSet(h, id, key, val), err |-> FALSE]

fastdoc_add(h, id, key, val) == fastdoc_set(h, id, key, val)

fastdoc_remove(h, id, key) == [h |-> ObjectDel(h, id, key), err |-> FALSE]

getIndex(key) ==
    LET n == Atoi(key)
    IN  IF ~ n.ok THEN [idx |-> 0, err |-> TRUE]
        ELSE IF n.n < 0 THEN [idx |-> 0, err |-> TRUE]
        ELSE [idx |-> n.n, err |-> FALSE]

fastarray_set(h, id, key, val) ==
    IF getIndex(key).err THEN [h |-> h, err |-> TRUE]
    ELSE [h |-> SetArrayItem(h, id, getIndex(key).idx, val), err |-> FALSE]

\* an add that stores over the item at the index instead of inserting
fastarray_add_overwrite(h, id, key, val) ==
    IF key = <<"-">> THEN [h |-> SetArrayItem(h, id, MaxInt, val), err |-> FALSE]
    ELSE fastarray_set(h, id, key, val)

fastarray_add(h, id, key, val) ==
    IF key = <<"-">> THEN [h |-> SetArrayItem(h, id, MaxInt, val), err |-> FALSE]
    ELSE IF getIndex(key).err THEN [h |-> h, err |-> TRUE]
    ELSE [h |-> InsertArrayItem(h, id, getIndex(key).idx, val), err |-> FALSE]

fastarray_get(h, id, key) == [v |-> ValueGet(h, id, key), err |-> FALSE]

fastarray_remove(h, id, key) == [h |-> ValueDel(h, id, key), err |-> FALSE]

\* the container interface: dispatch on the variant
container_get(h, con, key) ==
    IF con.kind = "doc" THEN fastdoc_get(h, con.v, key) ELSE fastarray_get(h, con.v, key)

container_set(h, con, key, val) ==
    IF con.kind = "doc" THEN fastdoc_set(h, con.v, key, val)
    ELSE fastarray_set(h, con.v, key, val)

container_add(h, con, key, val) ==
    IF con.kind = "doc" THEN fastdoc_add(h, con.v, key, val)
    ELSE fastarray_add(h, con.v, key, val)

container_remove(h, con, key) ==
    IF con.kind = "doc" THEN fastdoc_remove(h, con.v, key)
    ELSE fastarray_remove(h, con.v, key)

\* the switch on a value's type in ApplyFast and findObject: a fastarray, a
\* fastdoc, or no container for any other type
ContainerOf(h, id) ==
    IF h[id].t = "array" THEN ArrCon(id)
    ELSE IF h[id].t = "object" THEN DocCon(id)
    ELSE NilCon

\* intoFastType(val): as above, but any other type is an error
intoFastType(h, id) ==
    LET con == ContainerOf(h, id)
    IN  [con |-> con, err |-> con.kind = "nil"]

RECURSIVE Walk(_, _, _)
\* findObject's loop, after the get of one intermediate token returned g
WalkNext(h, g, parts) ==
    IF g.v = Nil \/ g.err THEN NilCon
    ELSE IF ContainerOf(h, g.v).kind = "nil" THEN NilCon
    ELSE Walk(h, ContainerOf(h, g.v), Tail(parts))

\* the loop of findObject over the intermediate tokens
Walk(h, doc, parts) ==
    IF parts = <<>> THEN doc
    ELSE IF doc.kind = "nil" THEN PanicCon
    ELSE WalkNext(h, container_get(h, doc, decodePatchKey(Head(parts))), parts)

\* findObject(pd, path): the container holding the last token of the
\* pointer, and that token decoded
Found(split, con) ==
    IF con.kind \in {"nil", "panic"} /\ Len(split) > 2
    THEN [con |-> con, key |-> <<>>]
    ELSE [con |-> con, key |-> decodePatchKey(split[Len(split)])]

findObjectSplit(h, pd, split) ==
    IF Len(split) < 2 THEN [con |-> NilCon, key |-> <<>>]
    ELSE Found(split, Walk(h, pd, SubSeq(split, 2, Len(split) - 1)))

findObject(h, pd, path) == findObjectSplit(h, pd, Split(path))

\* -------------------------------------------------------------- operations
\* an absent field of an operation object
NoField == <<"absent">>

\* the values an operation may carry: "v", {} or [], or none
Shapes == <<"str", "obj", "arr">>

ShapeNode(s) ==
    IF s = "str" THEN StrNode(<<"v">>)
    ELSE IF s = "obj" THEN ObjNode(<<>>)
    ELSE ArrNode(<<>>)

ShapeOffset(s) == CHOOSE j \in 1..Len(Shapes) : Shapes[j] = s

\* the node the parser built for the value of the k-th operation of a patch
ValueNode(k, s) == NullId + Len(Shapes) * (k - 1) + ShapeOffset(s)

RECURSIVE ValueNodes(_)
ValueNodes(n) ==
    IF n = 0 THEN <<>>
    ELSE ValueNodes(n - 1) \o [j \in 1..Len(Shapes) |-> ShapeNode(Shapes[j])]

\* the heap after the document and a patch of at most MaxOps operations are
\* parsed
Heap0 == DocNodes \o <<NullNode>> \o ValueNodes(MaxOps)

Op(kind, path, from, shape) == [op |-> kind, path |-> path, from |-> from, value |-> shape]

\* Operation.Kind()
Kind(o) == IF o.op = "" THEN "unknown" ELSE o.op

\* Operation.Path()
Path(o) == [s |-> IF o.path = NoField THEN <<>> ELSE o.path, err |-> o.path = NoField]

\* Operation.From()
From(o) == [s |-> IF o.from = NoField THEN <<>> ELSE o.from, err |-> o.from = NoField]

\* Operation.value() of the k-th operation: nil when it has no value field
value(o, k) == IF o.value = "none" THEN Nil ELSE ValueNode(k, o.value)

\* what a handler leaves: the heap, the root container, and "ok", "error"
\* or "panic"
R(h, pd, out) == [h |-> h, pd |-> pd, out |-> out]

\* a handler's return after the container call that returned r
Done(h, pd, r) == IF r.err THEN R(h, pd, "error") ELSE R(r.h, pd, "ok")

\* Patch.add once findObject returned f
AddAt(h, pd, f, val) ==
    IF f.con.kind = "panic" THEN R(h, pd, "panic")
    ELSE IF f.con.kind = "nil" THEN R(h, pd, "error")
    ELSE Done(h, pd, container_add(h, f.con, f.key, val))

Patch_add(h, pd, o, k) ==
    IF Path(o).err THEN R(h, pd, "error")
    ELSE AddAt(h, pd, findObject(h, pd, Path(o).s), value(o, k))

\* Patch.remove once findObject returned f
RemoveAtKey(h, pd, f) ==
    IF f.con.kind = "panic" THEN R(h, pd, "panic")
    ELSE IF f.con.kind = "nil" THEN R(h, pd, "error")
    ELSE Done(h, pd, container_remove(h, f.con, f.key))

Patch_remove(h, pd, o, k) ==
    IF Path(o).err THEN R(h, pd, "error")
    ELSE RemoveAtKey(h, pd, findObject(h, pd, Path(o).s))

\* Patch.replace on the root, once intoFastType returned c
ReplaceRoot(h, pd, c) == IF c.err THEN R(h, pd, "error") ELSE R(h, c.con, "ok")

\* Patch.replace once findObject returned f
ReplaceAt(h, pd, f, val) ==
    IF f.con.kind = "panic" THEN R(h, pd, "panic")
    ELSE IF f.con.kind = "nil" THEN R(h, pd, "error")
    ELSE IF container_get(h, f.con, f.key).err THEN R(h, pd, "error")
    ELSE Done(h, pd, container_set(h, f.con, f.key, val))

Patch_replace(h, pd, o, k) ==
    IF Path(o).err THEN R(h, pd, "error")
    ELSE IF Path(o).s = <<>>
    THEN IF value(o, k) = Nil THEN R(h, pd, "panic")
         ELSE ReplaceRoot(h, pd, intoFastType(h, value(o, k)))
    ELSE ReplaceAt(h, pd, findObject(h, pd, Path(o).s), value(o, k))

\* Patch.move once the get at from returned g
MoveValue(h, pd, o, g) ==
    IF g.err THEN R(h, pd, "error")
    ELSE IF Path(o).err THEN R(h, pd, "error")
    ELSE AddAt(h, pd, findObject(h, pd, Path(o).s), g.v)

\* Patch.move once findObject returned f for from
MoveFrom(h, pd, o, f) ==
    IF f.con.kind = "panic" THEN R(h, pd, "panic")
    ELSE IF f.con.kind = "nil" THEN R(h, pd, "error")
    ELSE MoveValue(h, pd, o, container_get(h, f.con, f.key))

Patch_move(h, pd, o, k) ==
    IF From(o).err THEN R(h, pd, "error")
    ELSE MoveFrom(h, pd, o, findObject(h, pd, From(o).s))

Patch_test(h, pd, o, k) == R(h, pd, "panic")

Patch_copy(h, pd, o, k) == R(h, pd, "panic")

\* the body of ApplyFast's loop for the k-th operation o
ApplyOne(h, pd, o, k) ==
    CASE Kind(o) = "add"     -> Patch_add(h, pd, o, k)
      [] Kind(o) = "remove"  -> Patch_remove(h, pd, o, k)
      [] Kind(o) = "replace" -> Patch_replace(h, pd, o, k)
      [] Kind(o) = "move"    -> Patch_move(h, pd, o, k)
      [] Kind(o) = "test"    -> Patch_test(h, pd, o, k)
      [] Kind(o) = "copy"    -> Patch_copy(h, pd, o, k)
      [] OTHER               -> R(h, pd, "error")

\* one iteration of ApplyFast's loop: the operation is dispatched, and the
\* loop goes on ("running") unless it returned an error or panicked
ApplyFastStep(h, pd, o, k) ==
    [ApplyOne(h, pd, o, k) EXCEPT !.out = IF @ = "ok" THEN "running" ELSE @]

\* ApplyFast's return after the loop: the value it was called with
ApplyFastReturn(d, pd) == d

\* ------------------------------------------------------------------ inputs
AddOp(path, shape) == Op("add", path, NoField, shape)

RemoveOp(path) == Op("remove", path, NoField, "none")

ReplaceOp(path, shape) == Op("replace", path, NoField, shape)

MoveOp(from, path) == Op("move", path, from, "none")

AddPaths ==
    { <<"/", "n">>, <<"/", "a">>, <<"/", "a", "/", "n">>,
      <<"/", "c", "/", "0">>, <<"/", "c", "/", "1">>, <<"/", "c", "/", "2">>,
      <<"/", "c", "/", "-">>, <<"/", "c", "/", "x">>,
      <<"x", "/", "n">>, <<"n">>, <<"/", "z", "/", "n">>,
      <<"/", "a", "/", "b", "/", "n">>,
      <<"/", "~", "0", "~", "1", "/", "n">>, <<"/", "~", "0", "1">> }

RemovePaths ==
    { <<"/", "a">>, <<"/", "n">>, <<"/", "c", "/", "0">>, <<"/", "c", "/", "5">>,
      <<"/", "z", "/", "n">>, <<"/", "0">> }

ReplacePaths ==
    { <<"/", "a">>, <<"/", "n">>, <<"/", "c", "/", "0">>, <<"/", "c", "/", "2">> }

MovePairs ==
    { << <<"/", "a">>, <<"/", "n">> >>,
      << <<"/", "a">>, <<"/", "a", "/", "n">> >>,
      << <<"/", "a", "/", "b">>, <<"/", "a">> >>,
      << <<"/", "c", "/", "0">>, <<"/", "c", "/", "-">> >>,
      << <<"/", "n">>, <<"/", "a">> >>,
      << <<"/", "a", "/", "b">>, <<"/", "c", "/", "0">> >> }

\* the operations patches are made of
Ops ==
    {AddOp(p, "str") : p \in AddPaths}
    \cup {AddOp(<<"/", "n">>, "obj"), AddOp(NoField, "str")}
    \cup {RemoveOp(p) : p \in RemovePaths}
    \cup {ReplaceOp(p, "str") : p \in ReplacePaths}
    \cup {ReplaceOp(<<>>, sh) : sh \in {"str", "obj", "arr"}}
    \cup {MoveOp(m[1], m[2]) : m \in MovePairs}
    \cup {Op(kd, <<"/", "a">>, NoField, "str") : kd \in {"test", "copy", "bogus"}}

\* ------------------------------------------------- structural comparison
Deep == [t |-> "deep", s |-> <<>>, kids |-> <<>>]

RECURSIVE Tree(_, _, _)
\* the value at node id as its serialisation shows it, unfolded d levels
Tree(h, id, d) ==
    IF id = Nil THEN [t |-> "nil", s |-> <<>>, kids |-> <<>>]
    ELSE IF d = 0 THEN Deep
    ELSE [t |-> h[id].t, s |-> h[id].s,
          kids |-> IF h[id].t = "object"
                   THEN [j \in 1..Len(h[id].kvs) |->
                            [k |-> h[id].kvs[j].k, v |-> Tree(h, h[id].kvs[j].v, d - 1)]]
                   ELSE [j \in 1..Len(h[id].a) |->
                            [k |-> <<>>, v |-> Tree(h, h[id].a[j], d - 1)]]]

\* ------------------------------------------------------- decode and encode
\* JSON text is a sequence of tokens: the brackets and the comma of an array,
\* white space, a number, and two object texts ("{A}", "{B}") that stand for
\* operation objects as the parser reads and the serialiser writes them
Tokens == {"[", "]", ",", " ", "1", "{A}", "{B}"}

Atom(tk) == [t |-> IF tk = "1" THEN "number" ELSE "object", s |-> tk, items |-> <<>>]

Arr(items) == [t |-> "array", s |-> "", items |-> items]

Bad(ts) == [ok |-> FALSE, val |-> Arr(<<>>), rest |-> ts]

RECURSIVE SkipWS(_)
SkipWS(ts) == IF ts # <<>> /\ Head(ts) = " " THEN SkipWS(Tail(ts)) ELSE ts

RECURSIVE ParseValue(_)
RECURSIVE ParseItems(_, _)
\* the items of an array after its first: "]" ends it, "," brings the next
ParseItems(ts, acc) ==
    LET u == SkipWS(ts)
    IN  IF u = <<>> THEN Bad(u)
        ELSE IF Head(u) = "]" THEN [ok |-> TRUE, val |-> Arr(acc), rest |-> Tail(u)]
        ELSE IF Head(u) = ","
        THEN LET v == ParseValue(Tail(u))
             IN  IF v.ok THEN ParseItems(v.rest, Append(acc, v.val)) ELSE Bad(u)
        ELSE Bad(u)

\* one JSON value at the head of ts
ParseValue(ts) ==
    LET u == SkipWS(ts)
    IN  IF u = <<>> THEN Bad(u)
        ELSE IF Head(u) \in {"1", "{A}", "{B}"}
        THEN [ok |-> TRUE, val |-> Atom(Head(u)), rest |-> Tail(u)]
        ELSE IF Head(u) = "["
        THEN LET w == SkipWS(Tail(u))
             IN  IF w # <<>> /\ Head(w) = "]"
                 THEN [ok |-> TRUE, val |-> Arr(<<>>), rest |-> Tail(w)]
                 ELSE LET v == ParseValue(w)
                      IN  IF v.ok THEN ParseItems(v.rest, <<v.val>>) ELSE Bad(u)
        ELSE Bad(u)

\* fastjson.ParseBytes(buf): one value and nothing but white space after it
ParseBytes(buf) ==
    LET v == ParseValue(buf)
    IN  IF v.ok /\ SkipWS(v.rest) = <<>> THEN [ok |-> TRUE, val |-> v.val]
        ELSE [ok |-> FALSE, val |-> Arr(<<>>)]

\* DecodePatch(buf): the objects of the parsed array, in order
DecodePatch(buf) ==
    LET parsed == ParseBytes(buf)
    IN  IF ~ parsed.ok THEN [err |-> TRUE, patch |-> <<>>]
        ELSE IF parsed.val.t # "array" THEN [err |-> TRUE, patch |-> <<>>]
        ELSE IF \E j \in 1..Len(parsed.val.items) : parsed.val.items[j].t # "object"
        THEN [err |-> TRUE, patch |-> <<>>]
        ELSE [err |-> FALSE,
              patch |-> [j \in 1..Len(parsed.val.items) |-> parsed.val.items[j].s]]

\* Operation.Marshal(): the text of the operation object
Operation_Marshal(o) == <<o>>

RECURSIVE WriteOps(_)
\* the loop of Patch.Marshal: each operation's text written after the last
WriteOps(p) ==
    IF p = <<>> THEN <<>> ELSE Operation_Marshal(Head(p)) \o WriteOps(Tail(p))

\* Patch.Marshal()
Patch_Marshal(p) == <<"[">> \o WriteOps(p) \o <<"]">>

\* --------------------------------------------------- pointers for a key
RECURSIVE Escape(_)
\* RFC 6901 escaping of a member name: "~" as "~0" and "/" as "~1"
Escape(k) ==
    IF k = <<>> THEN <<>>
    ELSE IF Head(k) = "~" THEN <<"~", "0">> \o Escape(Tail(k))
    ELSE IF Head(k) = "/" THEN <<"~", "1">> \o Escape(Tail(k))
    ELSE <<Head(k)>> \o Escape(Tail(k))

\* the document {k: {k: "x"}}
KeyHeap(k) == << ObjNode(<<KV(k, 2)>>), ObjNode(<<KV(k, 3)>>), StrNode(<<"x">>) >>

\* the pointer to the inner member of that document
KeyPointer(k) == <<"/">> \o Escape(k) \o <<"/">> \o Escape(k)

\* -------------------------------------------------------------------- state
\* mode: which entry point of the package the run exercises
\* tok, dec: a pointer token and what decodePatchKey made of it
\* fnd: what findObject made of the pointer to member tok of member tok
\* buf, decoded, out: a patch buffer, what DecodePatch made of it, and what
\*     Patch.Marshal wrote for the decoded patch
\* heap, doc, pd: the value heap, the value ApplyFast was called with, and
\*     its root container
\* patch, i: the patch and the number of its operations already dispatched
\* status, result: where ApplyFast is and what it returned
\* hprev, pdprev: the heap and root container before the last operation
VARIABLES mode, tok, dec, fnd, buf, decoded, out,
          heap, doc, pd, patch, i, status, result, hprev, pdprev

vars == <<mode, tok, dec, fnd, buf, decoded, out,
          heap, doc, pd, patch, i, status, result, hprev, pdprev>>

keyVars == <<tok, dec, fnd>>

codecVars == <<buf, decoded, out>>

applyVars == <<heap, doc, pd, patch, i, status, result, hprev, pdprev>>

Unset == <<"unset">>

Alphabet == {"~", "0", "1", "/", "a"}

IdleApply ==
    /\ heap = Heap0
    /\ doc = Nil
    /\ pd = NilCon
    /\ patch = <<>>
    /\ i = 0
    /\ status = "idle"
    /\ result = Nil
    /\ hprev = Heap0
    /\ pdprev = NilCon

IdleKey ==
    /\ tok = <<>>
    /\ dec = Unset
    /\ fnd = Unset

IdleCodec ==
    /\ buf = <<>>
    /\ decoded = Unset
    /\ out = Unset

InitKey ==
    /\ mode = "key"
    /\ tok \in SeqsUpTo(Alphabet, MaxLen)
    /\ dec = Unset
    /\ fnd = Unset
    /\ IdleCodec
    /\ IdleApply

InitCodec ==
    /\ mode = "codec"
    /\ buf \in SeqsUpTo(Tokens, MaxBuf)
    /\ decoded = Unset
    /\ out = Unset
    /\ IdleKey
    /\ IdleApply

\* ApplyFast entered: the document and the patch are parsed and the root
\* container is chosen by the document's type
InitApply ==
    /\ mode = "apply"
    /\ IdleKey
    /\ IdleCodec
    /\ heap = Heap0
    /\ doc \in DocRoots
    /\ pd = ContainerOf(Heap0, doc)
    /\ patch \in SeqsUpTo(Ops, MaxOps)
    /\ i = 0
    /\ status = "running"
    /\ result = Nil
    /\ hprev = Heap0
    /\ pdprev = pd

\* decodePatchKey called on one token
DecodeKey ==
    /\ mode = "key"
    /\ dec = Unset
    /\ dec' = <<"set", decodePatchKey(tok)>>
    /\ UNCHANGED <<mode, tok, fnd>>
    /\ UNCHANGED codecVars
    /\ UNCHANGED applyVars

\* findObject called on the pointer to member tok of member tok
ResolveKey ==
    /\ mode = "key"
    /\ fnd = Unset
    /\ fnd' = <<"set", findObject(KeyHeap(tok), DocCon(1), KeyPointer(tok))>>
    /\ UNCHANGED <<mode, tok, dec>>
    /\ UNCHANGED codecVars
    /\ UNCHANGED applyVars

\* DecodePatch called on the buffer
DecodeBuf ==
    /\ mode = "codec"
    /\ decoded = Unset
    /\ decoded' = <<"set", DecodePatch(buf)>>
    /\ UNCHANGED <<mode, buf, out>>
    /\ UNCHANGED keyVars
    /\ UNCHANGED applyVars

\* Patch.Marshal called on the decoded patch
MarshalPatch ==
    /\ mode = "codec"
    /\ decoded # Unset
    /\ ~ decoded[2].err
    /\ out = Unset
    /\ out' = <<"set", Patch_Marshal(decoded[2].patch)>>
    /\ UNCHANGED <<mode, buf, decoded>>
    /\ UNCHANGED keyVars
    /\ UNCHANGED applyVars

\* the loop variables after an iteration that left st
Stepped(st) ==
    /\ heap' = st.h
    /\ pd' = st.pd
    /\ status' = st.out

\* one iteration of the loop of ApplyFast
ApplyOp ==
    /\ mode = "apply"
    /\ status = "running"
    /\ i < Len(patch)
    /\ Stepped(ApplyFastStep(heap, pd, patch[i + 1], i + 1))
    /\ hprev' = heap
    /\ pdprev' = pd
    /\ i' = i + 1
    /\ result' = Nil
    /\ UNCHANGED <<mode, doc, patch>>
    /\ UNCHANGED keyVars
    /\ UNCHANGED codecVars

\* the loop of ApplyFast ran out of operations
ApplyReturn ==
    /\ mode = "apply"
    /\ status = "running"
    /\ i = Len(patch)
    /\ status' = "done"
    /\ result' = ApplyFastReturn(doc, pd)
    /\ UNCHANGED <<mode, heap, doc, pd, patch, i, hprev, pdprev>>
    /\ UNCHANGED keyVars
    /\ UNCHANGED codecVars

Init == InitKey \/ InitCodec \/ InitApply

Next == DecodeKey \/ ResolveKey \/ DecodeBuf \/ MarshalPatch \/ ApplyOp \/ ApplyReturn

Spec == Init /\ [][Next]_vars

\* ------------------------------------------------------------------ claims
\* an operation has been dispatched; Last is that operation
Ran == mode = "apply" /\ i >= 1

Last == patch[i]

\* the last operation dispatched returned no error
LastOk == Ran /\ status \in {"running", "done"}

\* resolving a pointer and reading its value, nil when either fails
ReadAt(h, con, path) ==
    LET f == findObject(h, con, path)
    IN  IF f.con.kind \in {"nil", "panic"} THEN Nil
        ELSE container_get(h, f.con, f.key).v

\* a token as RFC 6901 escaping writes it: no "/", every "~" followed by "0" or "1"
WellFormed(k) ==
    /\ ~ Contains(k, "/")
    /\ \A j \in 1..Len(k) : k[j] = "~" => (j < Len(k) /\ k[j + 1] \in {"0", "1"})

Malformed(path) == path # NoField /\ path # <<>> /\ path[1] # "/"

\* C1: for every valid patch buffer, what Patch.Marshal writes for the decoded
\* patch parses as JSON and is structurally equal to the buffer: the same
\* operation objects in the same order.
C1_RoundTrip ==
    (mode = "codec" /\ out # Unset) =>
        /\ ParseBytes(out[2]).ok
        /\ ParseBytes(out[2]).val = ParseBytes(buf).val

\* C9: an add, remove, replace or move whose path or from is non-empty and
\* does not begin with "/" resolves to no container, fails with an error and
\* leaves the document as it was.
C9_MalformedRejected ==
    (/\ Ran
     /\ Kind(Last) \in {"add", "remove", "replace", "move"}
     /\ Malformed(Last.path) \/ (Kind(Last) = "move" /\ Malformed(Last.from)))
    => /\ status = "error"
       /\ heap = hprev
       /\ Malformed(Last.path) => findObject(hprev, pdprev, Last.path).con = NilCon

\* C10: decodePatchKey turns every "~1" into "/" and every "~0" into "~" in
\* one pass and never decodes its own output: "a~01b" gives "a~1b" and
\* "c~10d" gives "c/0d", a token without "~" is returned as it is, a
\* well-formed token is the escaping of its decoding; and findObject decodes
\* the intermediate and the final token of the pointer to member k of member
\* k, for every name k, so that it finds the inner object and the key k.
C10_DecodedOnce ==
    /\ decodePatchKey(<<"a", "~", "0", "1", "b">>) = <<"a", "~", "1", "b">>
    /\ decodePatchKey(<<"c", "~", "1", "0", "d">>) = <<"c", "/", "0", "d">>
    /\ (mode = "key" /\ dec # Unset) =>
           /\ ~ Contains(tok, "~") => dec[2] = tok
           /\ WellFormed(tok) => Escape(dec[2]) = tok
           /\ Len(dec[2]) <= Len(tok)
    /\ (mode = "key" /\ fnd # Unset) => fnd[2] = [con |-> DocCon(2), key |-> tok]

C10_Witness ==
    /\ mode = "key"
    /\ tok = <<"~", "0", "1">>
    /\ dec = <<"set", <<"~", "1">>>>
    /\ fnd # Unset

\* the members of object id other than key, in order
Others(h, id, key) == SelectSeq(h[id].kvs, LAMBDA m : m.k # key)

\* every node but id is as it was
OnlyChanged(h0, h1, id) == \A n \in DOMAIN h0 : n # id => h1[n] = h0[n]

\* the target of the last operation's path, resolved before it ran
Target == findObject(hprev, pdprev, Last.path)

\* the last operation is an add that carries a value and returned no error
AddDone == LastOk /\ Kind(Last) = "add" /\ Last.value # "none"

C3_InsertShifts ==
    (/\ LastOk
     /\ Kind(Last) = "add"
     /\ Target.con.kind = "arr"
     /\ ~ getIndex(Target.key).err
     /\ getIndex(Target.key).idx <= Len(hprev[Target.con.v].a))
    => LET old == hprev[Target.con.v].a
           new == heap[Target.con.v].a
           idx == getIndex(Target.key).idx
       IN  /\ Len(new) = Len(old) + 1
           /\ \A j \in 0..(Len(old) - 1) : j < idx => new[j + 1] = old[j + 1]
           /\ new[idx + 1] = value(Last, i)
           /\ \A j \in 0..(Len(old) - 1) : j >= idx => new[j + 2] = old[j + 1]

C3_Witness ==
    /\ LastOk
    /\ Kind(Last) = "add"
    /\ Target.con.kind = "arr"
    /\ ~ getIndex(Target.key).err
    /\ getIndex(Target.key).idx = 1
    /\ Len(hprev[Target.con.v].a) = 2
    /\ Len(heap[Target.con.v].a) = 3

\* the final key names nothing in its parent: no member of the object, or an
\* index at or past the length of the array
KeyAbsent(h, con, key) ==
    IF con.kind = "doc" THEN ObjectGet(h, con.v, key) = Nil
    ELSE ~ getIndex(key).err /\ getIndex(key).idx >= Len(h[con.v].a)

\* C4: a replace with a non-empty path whose final key does not exist in its
\* parent container fails with an error and leaves the document unchanged.
C4_ReplaceNeedsKey ==
    (/\ Ran
     /\ Kind(Last) = "replace"
     /\ Last.path # NoField
     /\ Last.path # <<>>
     /\ Target.con.kind \in {"doc", "arr"}
     /\ KeyAbsent(hprev, Target.con, Target.key))
    => /\ status = "error"
       /\ heap = hprev

RootReplace(o) == Kind(o) = "replace" /\ o.path = <<>>

\* the position of the last replace of the root by an object or an array
LastRootReplace ==
    CHOOSE k \in 1..Len(patch) :
        /\ RootReplace(patch[k]) /\ patch[k].value \in {"obj", "arr"}
        /\ \A m \in (k + 1)..Len(patch) :
               ~ (RootReplace(patch[m]) /\ patch[m].value \in {"obj", "arr"})

\* C5: a replace with the empty path and an object or array value makes that
\* value the root the later operations act on, and ApplyFast returns it (so
\* Apply serialises it); with a scalar value the operation fails.
C5_RootReplace ==
    /\ (Ran /\ RootReplace(Last) /\ Last.value \in {"obj", "arr"}) =>
           /\ status # "error"
           /\ pd = ContainerOf(heap, ValueNode(i, Last.value))
    /\ (Ran /\ RootReplace(Last) /\ Last.value = "str") => status = "error"
    /\ (/\ mode = "apply"
        /\ status = "done"
        /\ \E k \in 1..Len(patch) :
               RootReplace(patch[k]) /\ patch[k].value \in {"obj", "arr"})
       => /\ pd.v = ValueNode(LastRootReplace, patch[LastRootReplace].value)
          /\ result = pd.v
          /\ Tree(heap, result, MaxDepth) = Tree(heap, pd.v, MaxDepth)

\* C6: a remove fails with an error, leaving the document unchanged, when its
\* path resolves to no parent container or the final key is absent from the
\* parent; when the key is present it deletes exactly that member or item.
\* (Stated for the runs in which the resolution itself does not panic.)
C6_RemoveNeedsKey ==
    (Ran /\ Kind(Last) = "remove" /\ Last.path # NoField /\ Target.con.kind # "panic") =>
        LET present == /\ Target.con.kind \in {"doc", "arr"}
                       /\ container_get(hprev, Target.con, Target.key).v # Nil
        IN  /\ ~ present => (status = "error" /\ heap = hprev)
            /\ present =>
                   /\ status # "error"
                   /\ OnlyChanged(hprev, heap, Target.con.v)
                   /\ container_get(heap, Target.con, Target.key).v
                          # container_get(hprev, Target.con, Target.key).v
                   /\ Len(heap[Target.con.v].kvs) + Len(heap[Target.con.v].a)
                          = Len(hprev[Target.con.v].kvs) + Len(hprev[Target.con.v].a) - 1

RECURSIVE Run(_, _, _, _, _)
\* the operations k..n of ops applied one after the other to (h, pd), up to
\* the first that does not return ok: what is left, how that operation
\* ended, and its position
Run(h, con, ops, k, n) ==
    IF k > n THEN [h |-> h, pd |-> con, out |-> "ok", at |-> n]
    ELSE LET r == ApplyOne(h, con, ops[k], k)
         IN  IF r.out # "ok" THEN [h |-> r.h, pd |-> r.pd, out |-> r.out, at |-> k]
             ELSE Run(r.h, r.pd, ops, k + 1, n)

Expected(n) == Run(Heap0, ContainerOf(Heap0, doc), patch, 1, n)

\* what holds of every run, panics included: the tree is what the operations
\* dispatched so far left, in list order; nothing is dispatched after the
\* first operation that does not return ok; that operation leaves the tree
\* as the operations before it left it.
InOrderKeepsPrefix ==
    mode = "apply" =>
        LET e == Expected(i)
        IN  /\ heap = e.h
            /\ pd = e.pd
            /\ e.at = i
            /\ status \in {"running", "done"} <=> e.out = "ok"
            /\ status \in {"error", "panic"} <=> e.out = status
            /\ status = "done" => i = Len(patch)
            /\ status \in {"error", "panic"} =>
                   /\ result = Nil
                   /\ Expected(i - 1).out = "ok"
                   /\ heap = Expected(i - 1).h

\* C7: ApplyFast applies the operations in list order, each on what the ones
\* before it left; when operation k is the first to fail, no later operation
\* is applied, the call returns the error and no document, and the effects
\* of the operations before k stay in the tree.
C7_InOrderAbort ==
    /\ InOrderKeepsPrefix
    /\ mode = "apply" => (Expected(i).out # "ok" => status = "error")

\* pointer q leads through the location pointer p names
ProperPrefix(p, q) == HasPrefix(q, p \o <<"/">>)

\* the value a successful add at path left there ("-" names the item appended)
Added(h, con, path) ==
    LET f == findObject(h, con, path)
    IN  IF f.con.kind = "arr" /\ f.key = <<"-">> THEN h[f.con.v].a[Len(h[f.con.v].a)]
        ELSE ReadAt(h, con, path)

\* C8: after a move whose from resolves to a value and whose path has a
\* parent, the value at path equals the value that was at from, and the
\* source is not removed: it is still read at from (unless the destination
\* replaced a container from leads through).
C8_MoveKeepsValue ==
    (LastOk /\ Kind(Last) = "move" /\ ReadAt(hprev, pdprev, Last.from) # Nil) =>
        LET src == ReadAt(hprev, pdprev, Last.from)
        IN  /\ Tree(heap, Added(heap, pd, Last.path), MaxDepth) = Tree(hprev, src, MaxDepth)
            /\ ~ ProperPrefix(Last.path, Last.from) => ReadAt(heap, pd, Last.from) # Nil
====
